---- MODULE Spec2Model ----
(***************************************************************************)
(* Evidence-to-element matching engine of audithelpers.                    *)
(*                                                                         *)
(*   src/utils/element_extract.py   reference extractor                    *)
(*   src/matching/match_evidence.py registry builder, matcher, serializer  *)
(*                                                                         *)
(* A Python str is a sequence of one-character strings; the en dash, which *)
(* is not an ASCII character, is written as the token "ndash".  Python's   *)
(* None is the one-element sequence None, which is no str.                 *)
(***************************************************************************)
EXTENDS FiniteSets, Integers, Sequences, TLC

VARIABLES
    pc,               \* position of main(): build, begin, slides, collect, serialize, done
    elements_data,    \* input: the element definitions, in input order
    slides,           \* input: evidence_data["slides"]
    elements_lookup,  \* the registry (a dict: entries in insertion order, keys unique)
    k,                \* number of slides the for loop of the matcher has consumed
    element_evidence, \* registry key -> list of EvidenceSlide
    unmatched_slides, \* list of unmatched slide records
    stats,            \* the statistics dict
    matched_elements, \* MatchingResult.matched_elements
    metadata,         \* MatchingResult.metadata
    output,           \* serialize_result(result)
    rerun,            \* a second run of the matcher on the same input (SpecRuns)
    probe             \* input and results of the pure functions (SpecExtract, SpecNorm)

vars == <<pc, elements_data, slides, elements_lookup, k, element_evidence,
          unmatched_slides, stats, matched_elements, metadata, output,
          rerun, probe>>

(***************************************************************************)
(* Characters and strings                                                  *)
(***************************************************************************)
None == <<"None">>

LowerCase == <<"a","b","c","d","e","f","g","h","i","j","k","l","m",
               "n","o","p","q","r","s","t","u","v","w","x","y","z">>
UpperCase == <<"A","B","C","D","E","F","G","H","I","J","K","L","M",
               "N","O","P","Q","R","S","T","U","V","W","X","Y","Z">>
DigitChars == <<"0","1","2","3","4","5","6","7","8","9">>

Range(s) == {s[i] : i \in DOMAIN s}

IsDigit(c) == c \in Range(DigitChars)
IsLower(c) == c \in Range(LowerCase)
IsUpper(c) == c \in Range(UpperCase)
\* [A-Za-z], and str.isalpha() on the characters of the model
IsAlpha(c) == IsLower(c) \/ IsUpper(c)
\* \s
IsSpace(c) == c \in {" ", "\n", "\t"}
\* \w
IsWord(c) == IsAlpha(c) \/ IsDigit(c) \/ c = "_"
\* [\s-] of the pi_header pattern
IsSpaceOrHyphen(c) == IsSpace(c) \/ c = "-"
\* the class of the en dash and the hyphen of the slide_title_format pattern
IsDash(c) == c \in {"ndash", "-"}

\* str.upper() of one character
ToUpper(c) ==
    IF IsLower(c) THEN UpperCase[CHOOSE i \in DOMAIN LowerCase : LowerCase[i] = c]
    ELSE c

\* str.lower() of one character
ToLower(c) ==
    IF IsUpper(c) THEN LowerCase[CHOOSE i \in DOMAIN UpperCase : UpperCase[i] = c]
    ELSE c

\* a literal of a pattern compiled with re.IGNORECASE, at position i of t
LiteralAt(t, i, lit) ==
    /\ i + Len(lit) - 1 <= Len(t)
    /\ \A j \in DOMAIN lit : ToUpper(t[i + j - 1]) = ToUpper(lit[j])

RECURSIVE SkipDigits(_, _)
\* \d* from position i: the position after the run
SkipDigits(t, i) ==
    IF i <= Len(t) /\ IsDigit(t[i]) THEN SkipDigits(t, i + 1) ELSE i

RECURSIVE LStrip(_)
LStrip(s) == IF s # <<>> /\ IsSpace(Head(s)) THEN LStrip(Tail(s)) ELSE s

RECURSIVE RStrip(_)
RStrip(s) ==
    IF s # <<>> /\ IsSpace(s[Len(s)]) THEN RStrip(SubSeq(s, 1, Len(s) - 1)) ELSE s

\* str.strip()
Strip(s) == RStrip(LStrip(s))

RECURSIVE RStripChar(_, _)
\* str.rstrip(c) for a single character c
RStripChar(s, c) ==
    IF s # <<>> /\ s[Len(s)] = c THEN RStripChar(SubSeq(s, 1, Len(s) - 1), c) ELSE s

RECURSIVE StripTrailingLetters(_)
\* re.sub(r'[A-Za-z]+$', '', s)
StripTrailingLetters(s) ==
    IF s # <<>> /\ IsAlpha(s[Len(s)]) THEN StripTrailingLetters(SubSeq(s, 1, Len(s) - 1))
    ELSE s

(***************************************************************************)
(* Regular expressions, as the patterns of the extractor use them          *)
(*                                                                         *)
(* A pattern is a sequence of items.  An item is the opening or closing of *)
(* the one capture group, or a character class with a repetition:          *)
(*   One(c)  c      Opt(c)  c?     Plus(c)  c+     Star(c)  c*             *)
(*   LazyStar(c)  c*?                                                      *)
(* A class is written as in the source: "\\d", "\\s", "\\w", "[A-Za-z]",   *)
(* "[\\s-]", "[ndash-]", "." (any character but a newline); any other      *)
(* class is one literal character ("\\." "\\(" "\\)" are the escaped ones),*)
(* matched without regard to case (re.IGNORECASE).                         *)
(***************************************************************************)
InClass(cls, c) ==
    CASE cls = "\\d"       -> IsDigit(c)
      [] cls = "\\s"       -> IsSpace(c)
      [] cls = "\\w"       -> IsWord(c)
      [] cls = "[A-Za-z]"  -> IsAlpha(c)
      [] cls = "[\\s-]"    -> IsSpaceOrHyphen(c)
      [] cls = "[ndash-]"  -> IsDash(c)
      [] cls = "."         -> c # "\n"
      [] cls = "\\."       -> c = "."
      [] cls = "\\("       -> c = "("
      [] cls = "\\)"       -> c = ")"
      [] OTHER             -> ToUpper(c) = ToUpper(cls)

Open == [op |-> "open", cls |-> "", lo |-> 0, many |-> FALSE, greedy |-> TRUE]
Close == [op |-> "close", cls |-> "", lo |-> 0, many |-> FALSE, greedy |-> TRUE]
One(cls) == [op |-> "match", cls |-> cls, lo |-> 1, many |-> FALSE, greedy |-> TRUE]
Opt(cls) == [op |-> "match", cls |-> cls, lo |-> 0, many |-> FALSE, greedy |-> TRUE]
Plus(cls) == [op |-> "match", cls |-> cls, lo |-> 1, many |-> TRUE, greedy |-> TRUE]
Star(cls) == [op |-> "match", cls |-> cls, lo |-> 0, many |-> TRUE, greedy |-> TRUE]
LazyStar(cls) == [op |-> "match", cls |-> cls, lo |-> 0, many |-> TRUE, greedy |-> FALSE]

\* the items of a literal word
Word(chars) == [i \in DOMAIN chars |-> One(chars[i])]

RECURSIVE RunLength(_, _, _, _)
\* how many characters of the class stand at position i, counted up to limit
RunLength(t, i, cls, limit) ==
    IF limit > 0 /\ i <= Len(t) /\ InClass(cls, t[i])
    THEN 1 + RunLength(t, i + 1, cls, limit - 1)
    ELSE 0

NoMatch == [end |-> 0, group |-> <<>>]

\* tries: for each number n of repetitions of an item, the match m of the rest
\* of the pattern after them.  A greedy item takes the longest repetition
\* after which the rest matches, a lazy one the shortest.
Repeat(greedy, tries) ==
    LET ok == {x \in tries : x.m.end # 0} IN
    IF ok = {} THEN NoMatch
    ELSE (CHOOSE x \in ok : \A y \in ok : IF greedy THEN y.n <= x.n ELSE x.n <= y.n).m

RECURSIVE TryMatch(_, _, _, _, _, _)

\* The backtracking matcher: the items of pat from the j-th on against t at
\* position i; gs and ge are the bounds of the group so far.  The result is the
\* position after the match (0: no match) and the text of the group.
TryMatch(pat, j, t, i, gs, ge) ==
    IF j > Len(pat) THEN [end |-> i, group |-> SubSeq(t, gs, ge - 1)]
    ELSE IF pat[j].op = "open" THEN TryMatch(pat, j + 1, t, i, i, ge)
    ELSE IF pat[j].op = "close" THEN TryMatch(pat, j + 1, t, i, gs, i)
    ELSE CHOOSE r \in
             {Repeat(pat[j].greedy, tries) : tries \in
                 {{[n |-> n, m |-> TryMatch(pat, j + 1, t, i + n, gs, ge)] :
                      n \in pat[j].lo..RunLength(t, i, pat[j].cls,
                                                 IF pat[j].many THEN Len(t) ELSE 1)}}} :
             TRUE

(***************************************************************************)
(* Reference extractor (src/utils/element_extract.py)                      *)
(***************************************************************************)
\* (\d+\.\d+[A-Za-z]?)
IdGroup == <<Open, Plus("\\d"), One("\\."), Plus("\\d"), Opt("[A-Za-z]"), Close>>

\* (\d+\.\d+[A-Za-z]?)\s*>
ArrowPattern == IdGroup \o <<Star("\\s"), One(">")>>

\* NEXT\s+(\d+\.\d+[A-Za-z]?)\s*>
NextArrowPattern ==
    Word(<<"N", "E", "X", "T">>) \o <<Plus("\\s")>> \o IdGroup \o <<Star("\\s"), One(">")>>

\* PI[\s-]?(\d+)
PiHeaderPattern == Word(<<"P", "I">>) \o <<Opt("[\\s-]"), Open, Plus("\\d"), Close>>

\* \((\d+\.\d+[A-Za-z]?)\)
ParenthesesPattern == <<One("\\(")>> \o IdGroup \o <<One("\\)")>>

\* [Ee]lement\s+(\d+\.\d+[A-Za-z]?)
ElementExplicitPattern ==
    Word(<<"e", "l", "e", "m", "e", "n", "t">>) \o <<Plus("\\s")>> \o IdGroup

\* PI\s+\d+\s*[ndash-]\s*\w+.*?\((\d+\.\d+[A-Za-z]?)\)
SlideTitlePattern ==
    Word(<<"P", "I">>)
    \o <<Plus("\\s"), Plus("\\d"), Star("\\s"), One("[ndash-]"), Star("\\s"),
         Plus("\\w"), LazyStar("."), One("\\(")>>
    \o IdGroup \o <<One("\\)")>>

ELEMENT_PATTERNS ==
    << [regex |-> ArrowPattern, name |-> "arrow_format"],
       [regex |-> NextArrowPattern, name |-> "next_arrow_format"],
       [regex |-> PiHeaderPattern, name |-> "pi_header"],
       [regex |-> ParenthesesPattern, name |-> "parentheses_format"],
       [regex |-> ElementExplicitPattern, name |-> "element_explicit"],
       [regex |-> SlideTitlePattern, name |-> "slide_title_format"] >>

PatternNames == [p \in DOMAIN ELEMENT_PATTERNS |-> ELEMENT_PATTERNS[p].name]

\* a mutant of normalize_element_id: the suffix letter changes case instead of
\* being upper-cased
normalize_element_id_swapcase(element_id) ==
    LET s == Strip(element_id) IN
    IF s # <<>> /\ IsAlpha(s[Len(s)])
    THEN SubSeq(s, 1, Len(s) - 1)
         \o <<IF IsLower(s[Len(s)]) THEN ToUpper(s[Len(s)]) ELSE ToLower(s[Len(s)])>>
    ELSE s

normalize_element_id(element_id) ==
    LET s == Strip(element_id) IN
    IF s # <<>> /\ IsAlpha(s[Len(s)])
    THEN SubSeq(s, 1, Len(s) - 1) \o <<ToUpper(s[Len(s)])>>
    ELSE s

RECURSIVE FindIter(_, _, _)
RECURSIVE FindNext(_, _, _, _)

\* pattern.finditer(text) from position i, each match turned into the pair
\* (normalized id, pattern name)
FindIter(pattern, t, i) ==
    IF i > Len(t) THEN <<>>
    ELSE CHOOSE r \in
             {FindNext(pattern, t, i, m) : m \in {TryMatch(pattern.regex, 1, t, i, i, i)}} :
             TRUE

\* m is the match at position i; the search goes on after a match, and one
\* character on where there is none
FindNext(pattern, t, i, m) ==
    IF m.end # 0
    THEN <<[id |-> normalize_element_id(m.group), kind |-> pattern.name]>>
         \o FindIter(pattern, t, IF m.end > i THEN m.end ELSE i + 1)
    ELSE FindIter(pattern, t, i + 1)

RECURSIVE ExtractFromLastPatternFirst(_, _)
\* a mutant of ExtractFrom: the patterns are tried from the last declared to the
\* first
ExtractFromLastPatternFirst(t, p) ==
    IF p > Len(ELEMENT_PATTERNS) THEN <<>>
    ELSE FindIter(ELEMENT_PATTERNS[Len(ELEMENT_PATTERNS) + 1 - p], t, 1)
             \o ExtractFromLastPatternFirst(t, p + 1)

RECURSIVE ExtractFrom(_, _)
\* the loop over COMPILED_PATTERNS from the p-th pattern on
ExtractFrom(t, p) ==
    IF p > Len(ELEMENT_PATTERNS) THEN <<>>
    ELSE FindIter(ELEMENT_PATTERNS[p], t, 1) \o ExtractFrom(t, p + 1)

extract_element_references(text) == ExtractFrom(text, 1)

\* a mutant of Priority: the kinds in the order the patterns are declared
PriorityAsDeclared == PatternNames

\* the priority list of get_primary_element
Priority == <<"arrow_format", "next_arrow_format", "slide_title_format",
              "element_explicit", "parentheses_format", "pi_header">>

RECURSIVE PrimaryFrom(_, _)
\* the nested loops of get_primary_element from the p-th priority on; the
\* fallback after the loops is matches[0][0]
PrimaryFrom(matches, p) ==
    IF p > Len(Priority) THEN matches[1].id
    ELSE LET hits == SelectSeq(matches, LAMBDA m : m.kind = Priority[p]) IN
         IF hits # <<>> THEN hits[1].id ELSE PrimaryFrom(matches, p + 1)

\* a mutant of get_primary_element: the id is returned without its letter
get_primary_element_base(text) ==
    LET matches == extract_element_references(text) IN
    IF matches = <<>> THEN None ELSE StripTrailingLetters(PrimaryFrom(matches, 1))

get_primary_element(text) ==
    LET matches == extract_element_references(text) IN
    IF matches = <<>> THEN None ELSE PrimaryFrom(matches, 1)

get_all_elements(text) ==
    LET matches == extract_element_references(text) IN
    {matches[i].id : i \in DOMAIN matches}

\* The iteration orders of a Python set: which one a run gets depends on the
\* hashes of its strings (randomised per process), so each is possible.
Orders(S) ==
    {o \in [1..Cardinality(S) -> S] : \A i, j \in DOMAIN o : o[i] = o[j] => i = j}

(***************************************************************************)
(* Floats, as far as ids need them: a float is its decimal expansion       *)
(* [w |-> digits of the integer part, f |-> digits of the fraction].       *)
(* float() is modelled on strings made of digits, '.', letters and white   *)
(* space (no sign, exponent, underscore, inf or nan).                      *)
(***************************************************************************)
DigitVal(c) == (CHOOSE i \in DOMAIN DigitChars : DigitChars[i] = c) - 1

RECURSIVE NatOf(_)
NatOf(ds) == IF ds = <<>> THEN 0 ELSE 10 * NatOf(SubSeq(ds, 1, Len(ds) - 1)) + DigitVal(ds[Len(ds)])

RECURSIVE Zeros(_)
Zeros(n) == IF n <= 0 THEN <<>> ELSE <<"0">> \o Zeros(n - 1)

FloatZero == [w |-> <<"0">>, f |-> <<>>]

Scaled(x, n) == NatOf(x.w \o x.f \o Zeros(n - Len(x.f)))

FloatLess(x, y) ==
    LET n == IF Len(x.f) > Len(y.f) THEN Len(x.f) ELSE Len(y.f) IN
    Scaled(x, n) < Scaled(y, n)

\* float(s) for s without surrounding white space whose leading digits end
\* before position a; [ok |-> FALSE] stands for ValueError
ParseDecimal(s, a) ==
    IF a > Len(s)
    THEN IF a > 1 THEN [ok |-> TRUE, val |-> [w |-> s, f |-> <<>>]]
         ELSE [ok |-> FALSE, val |-> FloatZero]
    ELSE IF s[a] = "." /\ SkipDigits(s, a + 1) > Len(s) /\ Len(s) > 1
    THEN [ok |-> TRUE, val |-> [w |-> SubSeq(s, 1, a - 1), f |-> SubSeq(s, a + 1, Len(s))]]
    ELSE [ok |-> FALSE, val |-> FloatZero]

ParseStripped(s) == ParseDecimal(s, SkipDigits(s, 1))

\* float(str)
ParseFloat(str) == ParseStripped(Strip(str))

FloatOr(r, default) == IF r.ok THEN r.val ELSE default

element_to_float(element_id) ==
    FloatOr(ParseFloat(StripTrailingLetters(element_id)), FloatZero)

RECURSIVE InsertByFloat(_, _)
\* x goes after every element whose key is not greater than its own (stable)
InsertByFloat(sorted, x) ==
    IF sorted = <<>> THEN <<x>>
    ELSE IF FloatLess(element_to_float(x), element_to_float(Head(sorted)))
    THEN <<x>> \o sorted
    ELSE <<Head(sorted)>> \o InsertByFloat(Tail(sorted), x)

RECURSIVE SortedByFloat(_)
\* sorted(ids, key=element_to_float) of the ids in the order given
SortedByFloat(ids) ==
    IF ids = <<>> THEN <<>>
    ELSE InsertByFloat(SortedByFloat(SubSeq(ids, 1, Len(ids) - 1)), ids[Len(ids)])

RECURSIVE SplitLines(_)
\* str.split('\n')
SplitLines(t) ==
    IF \A i \in DOMAIN t : t[i] # "\n" THEN <<t>>
    ELSE LET n == CHOOSE i \in DOMAIN t : t[i] = "\n" /\ \A j \in 1..(i - 1) : t[j] # "\n"
         IN  <<SubSeq(t, 1, n - 1)>> \o SplitLines(SubSeq(t, n + 1, Len(t)))

\* PI\s*\d+\s*[ndash-], the header pattern of is_section_header without its ^
HeaderPattern ==
    Word(<<"P", "I">>) \o <<Star("\\s"), Plus("\\d"), Star("\\s"), One("[ndash-]")>>

\* header_pattern.match(line): a match at the start of the line
HeaderPatternMatch(line) == TryMatch(HeaderPattern, 1, line, 1, 1, 1).end # 0

\* lit in text.lower(), for a lower-case literal
ContainsLower(text, lit) == \E i \in DOMAIN text : LiteralAt(text, i, lit)

is_section_header(text) ==
    LET parts == SplitLines(Strip(text))
        stripped == [i \in DOMAIN parts |-> Strip(parts[i])]
        lines == SelectSeq(stripped, LAMBDA l : l # <<>>)
    IN  /\ Len(lines) <= 3
        /\ \E i \in DOMAIN lines : HeaderPatternMatch(lines[i])
        /\ ~ContainsLower(text, <<"a","s","k","/","l","o","o","k"," ","f","o","r">>)
        /\ \A i \in DOMAIN text : text[i] # ">"

(***************************************************************************)
(* Registry builder (src/matching/match_evidence.py)                       *)
(*                                                                         *)
(* The "PI-Element" of a definition is None, a number or a str:            *)
(*   [type |-> "NoneType" | "number" | "str", num |-> float, str |-> str]. *)
(* A dict is the sequence of its entries in insertion order.               *)
(***************************************************************************)
NoneId == [type |-> "NoneType", num |-> FloatZero, str |-> <<>>]
NumId(w, f) == [type |-> "number", num |-> [w |-> w, f |-> f], str |-> <<>>]
StrId(s) == [type |-> "str", num |-> FloatZero, str |-> s]

\* the str the builder makes of a number (lines 153-161)
FormatNumber(x) ==
    LET formatted == IF x.f = <<>> THEN x.w \o <<".", "0">> ELSE x.w \o <<".">> \o x.f
        stripped == RStripChar(RStripChar(formatted, "0"), ".")
    IN  IF "." \in Range(formatted)
        THEN IF "." \in Range(stripped) THEN stripped ELSE stripped \o <<".", "0">>
        ELSE formatted

\* the key build_elements_lookup stores a definition under
LookupKey(id) == IF id.type = "number" THEN FormatNumber(id.num) ELSE id.str

\* lookup[key] = entry: an existing key keeps its place, a new one goes last
DictSet(lookup, entry) ==
    IF \E i \in DOMAIN lookup : lookup[i].PI_Element = entry.PI_Element
    THEN [i \in DOMAIN lookup |->
             IF lookup[i].PI_Element = entry.PI_Element THEN entry ELSE lookup[i]]
    ELSE Append(lookup, entry)

RECURSIVE BuildFromStopsAtNone(_, _, _)
\* a mutant of BuildFrom: a definition without an id ends the loop
BuildFromStopsAtNone(data, i, lookup) ==
    IF i > Len(data) THEN lookup
    ELSE IF data[i].PI_Element.type = "NoneType" THEN lookup
    ELSE BuildFromStopsAtNone(data, i + 1,
             DictSet(lookup, [PI_Element |-> LookupKey(data[i].PI_Element),
                              Ask_Look_For |-> data[i].Ask_Look_For,
                              Calibrator_notes |-> data[i].Calibrator_notes]))

RECURSIVE BuildFrom(_, _, _)
\* the loop over elements_data (lines 146-169) from the i-th definition on
BuildFrom(data, i, lookup) ==
    IF i > Len(data) THEN lookup
    ELSE IF data[i].PI_Element.type = "NoneType" THEN BuildFrom(data, i + 1, lookup)
    ELSE BuildFrom(data, i + 1,
             DictSet(lookup, [PI_Element |-> LookupKey(data[i].PI_Element),
                              Ask_Look_For |-> data[i].Ask_Look_For,
                              Calibrator_notes |-> data[i].Calibrator_notes]))

build_elements_lookup(data) == BuildFrom(data, 1, <<>>)

Keys(lookup) == {lookup[i].PI_Element : i \in DOMAIN lookup}

(***************************************************************************)
(* Matcher (src/matching/match_evidence.py)                                *)
(***************************************************************************)
\* text[:n] + "..." if len(text) > n else text
Preview(text, n) ==
    IF Len(text) > n THEN SubSeq(text, 1, n) \o <<".", ".", ".">> ELSE text

InitialStats(n) ==
    [total_slides |-> n, matched_slides |-> 0, unmatched_slides |-> 0,
     section_headers |-> 0, empty_slides |-> 0, elements_with_evidence |-> 0,
     elements_without_evidence |-> 0, multi_element_slides |-> 0]

\* a mutant of TargetOf: the id without its letters is tried first
TargetOfBaseFirst(elem_id, keys) ==
    IF StripTrailingLetters(elem_id) \in keys THEN StripTrailingLetters(elem_id)
    ELSE IF elem_id \in keys THEN elem_id
    ELSE None

\* a mutant of TargetOf: a bare integer is also looked up with ".0" appended
TargetOfPaddedInteger(elem_id, keys) ==
    IF elem_id \in keys THEN elem_id
    ELSE IF StripTrailingLetters(elem_id) \in keys THEN StripTrailingLetters(elem_id)
    ELSE IF (elem_id \o <<".", "0">>) \in keys THEN elem_id \o <<".", "0">>
    ELSE None

\* the registry key a raw id resolves to (lines 273-282), None when there is none
TargetOf(elem_id, keys) ==
    IF elem_id \in keys THEN elem_id
    ELSE IF StripTrailingLetters(elem_id) \in keys THEN StripTrailingLetters(elem_id)
    ELSE None

\* a mutant of PrimaryPattern: the loop over the raw matches has no break
PrimaryPatternLast(matches, primary_element) ==
    LET hits == SelectSeq(matches, LAMBDA m : m.id = primary_element) IN
    IF hits # <<>> THEN hits[Len(hits)].kind ELSE "unknown"

\* the pattern of the first raw match whose id is the primary one (lines 248-253)
PrimaryPattern(matches, primary_element) ==
    LET hits == SelectSeq(matches, LAMBDA m : m.id = primary_element) IN
    IF hits # <<>> THEN hits[1].kind ELSE "unknown"

\* a mutant of EvidenceSlide: source_index is taken from the continuous index
EvidenceSlideContinuousIndex(slide, pattern, all_sorted, is_primary) ==
    [slide_index |-> slide.index,
     text |-> slide.text,
     text_preview |-> Preview(slide.text, 200),
     match_pattern |-> pattern,
     all_elements_in_slide |-> all_sorted,
     is_primary_match |-> is_primary,
     source_file |-> slide.source_file,
     source_index |-> slide.index]

\* the evidence entry of a slide (lines 288-297)
EvidenceSlide(slide, pattern, all_sorted, is_primary) ==
    [slide_index |-> slide.index,
     text |-> slide.text,
     text_preview |-> Preview(slide.text, 200),
     match_pattern |-> pattern,
     all_elements_in_slide |-> all_sorted,
     is_primary_match |-> is_primary,
     source_file |-> slide.source_file,
     source_index |-> slide.source_index]

RECURSIVE MatchLoopPrepends(_, _, _, _, _, _, _)
\* a mutant of MatchLoop: the entry goes to the front of the list of its element
MatchLoopPrepends(order, i, evidence, seen, slide, primary_element, primary_pattern) ==
    IF i > Len(order) THEN [element_evidence |-> evidence, matched |-> seen # {}]
    ELSE LET elem_id == order[i]
             target_elem == TargetOf(elem_id, DOMAIN evidence)
             is_primary == (elem_id = primary_element)
             entry == EvidenceSlide(slide,
                          IF is_primary THEN primary_pattern ELSE "secondary_reference",
                          SortedByFloat(order), is_primary)
         IN  IF target_elem # None /\ target_elem # <<>> /\ target_elem \notin seen
             THEN MatchLoopPrepends(order, i + 1,
                      [evidence EXCEPT ![target_elem] = <<entry>> \o @],
                      seen \cup {target_elem}, slide, primary_element, primary_pattern)
             ELSE MatchLoopPrepends(order, i + 1, evidence, seen, slide,
                      primary_element, primary_pattern)

RECURSIVE MatchLoopNoDedup(_, _, _, _, _, _, _)
\* a mutant of MatchLoop: matched_target_elements is filled but never consulted
MatchLoopNoDedup(order, i, evidence, seen, slide, primary_element, primary_pattern) ==
    IF i > Len(order) THEN [element_evidence |-> evidence, matched |-> seen # {}]
    ELSE LET elem_id == order[i]
             target_elem == TargetOf(elem_id, DOMAIN evidence)
             is_primary == (elem_id = primary_element)
             entry == EvidenceSlide(slide,
                          IF is_primary THEN primary_pattern ELSE "secondary_reference",
                          SortedByFloat(order), is_primary)
         IN  IF target_elem # None /\ target_elem # <<>>
             THEN MatchLoopNoDedup(order, i + 1,
                      [evidence EXCEPT ![target_elem] = Append(@, entry)],
                      seen \cup {target_elem}, slide, primary_element, primary_pattern)
             ELSE MatchLoopNoDedup(order, i + 1, evidence, seen, slide,
                      primary_element, primary_pattern)

RECURSIVE MatchLoop(_, _, _, _, _, _, _)
\* the loop "for elem_id in all_elements" (lines 272-299) from the i-th id of the
\* iteration order on; seen is matched_target_elements
MatchLoop(order, i, evidence, seen, slide, primary_element, primary_pattern) ==
    IF i > Len(order) THEN [element_evidence |-> evidence, matched |-> seen # {}]
    ELSE LET elem_id == order[i]
             target_elem == TargetOf(elem_id, DOMAIN evidence)
             is_primary == (elem_id = primary_element)
             entry == EvidenceSlide(slide,
                          IF is_primary THEN primary_pattern ELSE "secondary_reference",
                          SortedByFloat(order), is_primary)
         IN  IF target_elem # None /\ target_elem # <<>> /\ target_elem \notin seen
             THEN MatchLoop(order, i + 1,
                      [evidence EXCEPT ![target_elem] = Append(@, entry)],
                      seen \cup {target_elem}, slide, primary_element, primary_pattern)
             ELSE MatchLoop(order, i + 1, evidence, seen, slide,
                      primary_element, primary_pattern)

\* A reason is its fixed words and the ids it prints, in the order printed.
NoReferenceReason == [message |-> "No element reference found", ids |-> <<>>]

\* f"Element(s) {all_elements} not found in elements list": the repr of the set
\* lists its ids in iteration order
NotFoundReason(order) ==
    [message |-> "Element(s) {} not found in elements list", ids |-> order]

UnmatchedRecord(slide, reason) ==
    [slide_index |-> slide.index, text_preview |-> Preview(slide.text, 300),
     reason |-> reason]

\* a mutant of SlideResult: the record is appended whether or not an id resolved
SlideResultAlwaysRecords(acc, slide, order, st, r) ==
    [element_evidence |-> r.element_evidence,
     unmatched_slides |->
         Append(acc.unmatched_slides, UnmatchedRecord(slide, NotFoundReason(order))),
     stats |-> [st EXCEPT !.matched_slides = @ + 1]]

\* a mutant of SlideResult: a slide none of whose ids resolves is counted in
\* unmatched_slides as well
SlideResultAlsoUnmatched(acc, slide, order, st, r) ==
    [element_evidence |-> r.element_evidence,
     unmatched_slides |->
         IF r.matched THEN acc.unmatched_slides
         ELSE Append(acc.unmatched_slides, UnmatchedRecord(slide, NotFoundReason(order))),
     stats |-> [st EXCEPT !.matched_slides = @ + 1,
                          !.unmatched_slides = IF r.matched THEN @ ELSE @ + 1]]

\* lines 301-307 and the result of the iteration: r is what the loop over the
\* ids returned, st the statistics after line 245
SlideResult(acc, slide, order, st, r) ==
    [element_evidence |-> r.element_evidence,
     unmatched_slides |->
         IF r.matched THEN acc.unmatched_slides
         ELSE Append(acc.unmatched_slides, UnmatchedRecord(slide, NotFoundReason(order))),
     stats |-> [st EXCEPT !.matched_slides = @ + 1]]

\* a mutant of SlideBody: a section header is counted and then skipped
SlideBodyHeaderSkipped(acc, slide, order, header, all_elements, primary_element, matches) ==
    IF Strip(slide.text) = <<>>
    THEN [acc EXCEPT !.stats.empty_slides = @ + 1]
    ELSE IF header
    THEN [acc EXCEPT !.stats.section_headers = @ + 1]
    ELSE IF all_elements = {}
    THEN [acc EXCEPT !.stats.unmatched_slides = @ + 1,
                     !.unmatched_slides = Append(@, UnmatchedRecord(slide, NoReferenceReason))]
    ELSE SlideResult(acc, slide, order,
             [acc.stats EXCEPT !.multi_element_slides =
                                   IF Cardinality(all_elements) > 1 THEN @ + 1 ELSE @],
             MatchLoop(order, 1, acc.element_evidence, {}, slide, primary_element,
                       PrimaryPattern(matches, primary_element)))

\* lines 217-307 with the four results of the extractor at hand
SlideBody(acc, slide, order, header, all_elements, primary_element, matches) ==
    IF Strip(slide.text) = <<>>
    THEN [acc EXCEPT !.stats.empty_slides = @ + 1]
    ELSE IF all_elements = {}
    THEN [acc EXCEPT !.stats.section_headers = IF header THEN @ + 1 ELSE @,
                     !.stats.unmatched_slides = @ + 1,
                     !.unmatched_slides = Append(@, UnmatchedRecord(slide, NoReferenceReason))]
    ELSE SlideResult(acc, slide, order,
             [acc.stats EXCEPT !.section_headers = IF header THEN @ + 1 ELSE @,
                               !.multi_element_slides =
                                   IF Cardinality(all_elements) > 1 THEN @ + 1 ELSE @],
             MatchLoop(order, 1, acc.element_evidence, {}, slide, primary_element,
                       PrimaryPattern(matches, primary_element)))

\* a mutant of SlideStep: the branch of an empty slide has no "continue", so
\* the slide falls through to the branch of a slide without references
SlideStepEmptyFallsThrough(acc, slide, order) ==
    SlideBody(IF Strip(slide.text) = <<>>
              THEN [acc EXCEPT !.stats.unmatched_slides = @ + 1,
                               !.unmatched_slides =
                                   Append(@, UnmatchedRecord(slide, NoReferenceReason))]
              ELSE acc,
              slide, order,
              is_section_header(slide.text),
              get_all_elements(slide.text),
              get_primary_element(slide.text),
              extract_element_references(slide.text))

\* one iteration of the loop over the slides (lines 210-307) on the accumulators
\* acc = [element_evidence, unmatched_slides, stats]; order is the iteration
\* order of the set all_elements
SlideStep(acc, slide, order) ==
    SlideBody(acc, slide, order,
              is_section_header(slide.text),
              get_all_elements(slide.text),
              get_primary_element(slide.text),
              extract_element_references(slide.text))

\* a mutant of MatchedElement: evidence_count keeps the default of the dataclass
MatchedElementDefaultCount(entry, evidence_list) ==
    [pi_element |-> entry.PI_Element,
     ask_look_for |-> entry.Ask_Look_For,
     calibrator_notes |-> entry.Calibrator_notes,
     evidence |-> evidence_list,
     evidence_count |-> 0]

MatchedElement(entry, evidence_list) ==
    [pi_element |-> entry.PI_Element,
     ask_look_for |-> entry.Ask_Look_For,
     calibrator_notes |-> entry.Calibrator_notes,
     evidence |-> evidence_list,
     evidence_count |-> Len(evidence_list)]

\* sorted(elements_lookup.items(), key=lambda x: element_to_float(x[0]))
SortedItems(lookup) ==
    LET ids == SortedByFloat([i \in DOMAIN lookup |-> lookup[i].PI_Element]) IN
    [i \in DOMAIN ids |-> lookup[CHOOSE j \in DOMAIN lookup : lookup[j].PI_Element = ids[i]]]

RECURSIVE TotalEvidence(_, _)
\* the number of evidence entries of the first n items
TotalEvidence(counts, n) ==
    IF n = 0 THEN 0 ELSE counts[n] + TotalEvidence(counts, n - 1)

\* a mutant of CollectElements: elements_with_evidence grows by the number of
\* evidence entries of the element
CollectElementsCountsEntries(lookup, evidence, st) ==
    LET items == SortedItems(lookup)
        with == Cardinality({i \in DOMAIN items : evidence[items[i].PI_Element] # <<>>})
    IN  [matched_elements |->
             [i \in DOMAIN items |-> MatchedElement(items[i], evidence[items[i].PI_Element])],
         stats |-> [st EXCEPT !.elements_with_evidence =
                                  @ + TotalEvidence([i \in DOMAIN items |->
                                          Len(evidence[items[i].PI_Element])], Len(items)),
                              !.elements_without_evidence = @ + (Len(items) - with)]]

\* a mutant of CollectElements: elements without evidence are left out
CollectElementsWithEvidence(lookup, evidence, st) ==
    LET items == SelectSeq(SortedItems(lookup), LAMBDA e : evidence[e.PI_Element] # <<>>)
    IN  [matched_elements |->
             [i \in DOMAIN items |-> MatchedElement(items[i], evidence[items[i].PI_Element])],
         stats |-> [st EXCEPT !.elements_with_evidence = @ + Len(items),
                              !.elements_without_evidence = @ + (Len(lookup) - Len(items))]]

\* lines 309-326: the list of matched elements and the two element counters
CollectElements(lookup, evidence, st) ==
    LET items == SortedItems(lookup)
        with == Cardinality({i \in DOMAIN items : evidence[items[i].PI_Element] # <<>>})
    IN  [matched_elements |->
             [i \in DOMAIN items |-> MatchedElement(items[i], evidence[items[i].PI_Element])],
         stats |-> [st EXCEPT !.elements_with_evidence = @ + with,
                              !.elements_without_evidence = @ + (Len(items) - with)]]

\* lines 328-340, for evidence_data that carries only "slides"
Metadata(n, now) ==
    [source_evidence_files |-> <<>>, total_source_slides |-> n,
     generated_at |-> now, generator |-> "match_evidence_to_elements.py"]

\* a mutant of serialize_result: "source_index" is filled from slide_index
serialize_result_continuous_index(result) ==
    [metadata |-> result.metadata,
     statistics |-> result.statistics,
     matched_elements |->
         [i \in DOMAIN result.matched_elements |->
             LET elem == result.matched_elements[i] IN
             [PI_Element |-> elem.pi_element,
              Calibrator_instructions |->
                  [Ask_Look_For |-> elem.ask_look_for,
                   Calibrator_notes |-> elem.calibrator_notes],
              Evidence |->
                  [j \in DOMAIN elem.evidence |->
                      LET ev == elem.evidence[j] IN
                      [slide_index |-> ev.slide_index,
                       source_file |-> ev.source_file,
                       source_index |-> ev.slide_index,
                       text_preview |-> ev.text_preview,
                       match_pattern |-> ev.match_pattern,
                       all_elements_in_slide |-> ev.all_elements_in_slide,
                       is_primary_match |-> ev.is_primary_match,
                       full_text |-> ev.text]],
              evidence_count |-> elem.evidence_count]],
     unmatched_slides |-> result.unmatched_slides]

\* lines 350-380
serialize_result(result) ==
    [metadata |-> result.metadata,
     statistics |-> result.statistics,
     matched_elements |->
         [i \in DOMAIN result.matched_elements |->
             LET elem == result.matched_elements[i] IN
             [PI_Element |-> elem.pi_element,
              Calibrator_instructions |->
                  [Ask_Look_For |-> elem.ask_look_for,
                   Calibrator_notes |-> elem.calibrator_notes],
              Evidence |->
                  [j \in DOMAIN elem.evidence |->
                      LET ev == elem.evidence[j] IN
                      [slide_index |-> ev.slide_index,
                       source_file |-> ev.source_file,
                       source_index |-> ev.source_index,
                       text_preview |-> ev.text_preview,
                       match_pattern |-> ev.match_pattern,
                       all_elements_in_slide |-> ev.all_elements_in_slide,
                       is_primary_match |-> ev.is_primary_match,
                       full_text |-> ev.text]],
              evidence_count |-> elem.evidence_count]],
     unmatched_slides |-> result.unmatched_slides]

(***************************************************************************)
(* Inputs                                                                  *)
(***************************************************************************)
MaxSlides == 2
FirstDeckLen == 1

\* an empty slide
T_Empty == <<>>
\* a slide of white space
T_Blank == <<" ", "\n">>
\* "2.1 > x"
T_Arrow == <<"2", ".", "1", " ", ">", " ", "x">>
\* "2.1 >\n2.1a>"
T_Both == <<"2", ".", "1", " ", ">", "\n", "2", ".", "1", "a", ">">>
\* "2.1a >"
T_Suffix == <<"2", ".", "1", "a", " ", ">">>
\* "2 >"
T_Int == <<"2", " ", ">">>
\* "PI 2 - T (2.1)"
T_Title == <<"P", "I", " ", "2", " ", "-", " ", "T", " ", "(", "2", ".", "1", ")">>

SlideTexts == {T_Empty, T_Blank, T_Arrow, T_Both, T_Suffix, T_Int, T_Title}

\* the slides of two decks concatenated: "index" renumbers them continuously,
\* "source_file" and "source_index" say where each comes from
MakeSlides(texts) ==
    [i \in DOMAIN texts |->
        [index |-> i,
         text |-> texts[i],
         source_file |-> IF i <= FirstDeckLen THEN "deck_a.pptx" ELSE "deck_b.pptx",
         source_index |-> IF i <= FirstDeckLen THEN i ELSE i - FirstDeckLen]]

SlideInputs ==
    {MakeSlides(ts) : ts \in UNION {[1..n -> SlideTexts] : n \in 0..MaxSlides}}

Id_2_1 == <<"2", ".", "1">>
Id_2_1A == <<"2", ".", "1", "A">>
Id_2_1a == <<"2", ".", "1", "a">>
Id_2_0 == <<"2", ".", "0">>
Id_9_4_1 == <<"9", ".", "4", ".", "1">>

\* the "PI-Element" columns of the element lists of the model
ElementLists ==
    { <<>>,
      <<NumId(<<"2">>, <<"1">>)>>,
      <<NumId(<<"2">>, <<"1">>), StrId(Id_2_1A)>>,
      <<NumId(<<"2">>, <<>>)>>,
      <<StrId(Id_9_4_1), NumId(<<"2">>, <<"1">>)>>,
      <<NoneId, NumId(<<"2">>, <<"1">>)>>,
      <<NumId(<<"2">>, <<"1">>), StrId(Id_2_1)>>,
      <<StrId(Id_2_1a)>>,
      <<StrId(Id_2_1a), StrId(Id_2_1A)>> }

\* the i-th row carries the texts "ask i" and "notes i"
MakeData(ids) ==
    [i \in DOMAIN ids |->
        [PI_Element |-> ids[i], Ask_Look_For |-> <<"ask", i>>, Calibrator_notes |-> <<"notes", i>>]]

\* datetime.now().isoformat() of a run
Clock == {"t1", "t2"}

(***************************************************************************)
(* main(): build the registry, match the slides, serialize                 *)
(***************************************************************************)
NoRun ==
    [element_evidence |-> <<>>, unmatched_slides |-> <<>>, stats |-> InitialStats(0),
     matched_elements |-> <<>>, metadata |-> Metadata(0, "never"),
     output |-> <<>>]

NoProbe == [fn |-> "none", arg |-> <<>>, res |-> <<>>, res2 |-> <<>>]

Init ==
    /\ pc = "build"
    /\ elements_data \in {MakeData(ids) : ids \in ElementLists}
    /\ slides \in SlideInputs
    /\ elements_lookup = <<>>
    /\ k = 0
    /\ element_evidence = <<>>
    /\ unmatched_slides = <<>>
    /\ stats = InitialStats(0)
    /\ matched_elements = <<>>
    /\ metadata = Metadata(0, "never")
    /\ output = <<>>
    /\ rerun = NoRun
    /\ probe = NoProbe

BuildLookup ==
    /\ pc = "build"
    /\ elements_lookup' = build_elements_lookup(elements_data)
    /\ pc' = "begin"
    /\ UNCHANGED <<elements_data, slides, k, element_evidence, unmatched_slides, stats,
                   matched_elements, metadata, output, rerun, probe>>

\* lines 188-208
BeginMatchStep ==
    /\ pc = "begin"
    /\ element_evidence' = [key \in Keys(elements_lookup) |-> <<>>]
    /\ unmatched_slides' = <<>>
    /\ stats' = InitialStats(Len(slides))
    /\ k' = 0
    /\ pc' = "slides"
    /\ UNCHANGED <<elements_data, slides, elements_lookup, matched_elements, metadata, output>>

SetAccumulators(r) ==
    /\ element_evidence' = r.element_evidence
    /\ unmatched_slides' = r.unmatched_slides
    /\ stats' = r.stats

SetCollected(r) ==
    /\ matched_elements' = r.matched_elements
    /\ stats' = r.stats

\* one iteration of "for slide in slides" under the iteration order the set of
\* the slide's ids has in this run
ProcessSlideStep(order) ==
    /\ pc = "slides"
    /\ k < Len(slides)
    /\ SetAccumulators(SlideStep([element_evidence |-> element_evidence,
                                  unmatched_slides |-> unmatched_slides,
                                  stats |-> stats], slides[k + 1], order))
    /\ k' = k + 1
    /\ UNCHANGED <<pc, elements_data, slides, elements_lookup, matched_elements, metadata, output>>

\* lines 309-347
BuildMatchedElementsStep(now) ==
    /\ pc = "slides"
    /\ k = Len(slides)
    /\ SetCollected(CollectElements(elements_lookup, element_evidence, stats))
    /\ metadata' = Metadata(Len(slides), now)
    /\ pc' = "serialize"
    /\ UNCHANGED <<elements_data, slides, elements_lookup, k, element_evidence,
                   unmatched_slides, output>>

SerializeResultStep ==
    /\ pc = "serialize"
    /\ output' = serialize_result([metadata |-> metadata,
                                   matched_elements |-> matched_elements,
                                   unmatched_slides |-> unmatched_slides,
                                   statistics |-> stats])
    /\ pc' = "done"
    /\ UNCHANGED <<elements_data, slides, elements_lookup, k, element_evidence,
                   unmatched_slides, stats, matched_elements, metadata>>

BeginMatch == BeginMatchStep /\ UNCHANGED <<rerun, probe>>

ProcessSlide ==
    /\ pc = "slides"
    /\ k < Len(slides)
    /\ \E order \in Orders(get_all_elements(slides[k + 1].text)) : ProcessSlideStep(order)
    /\ UNCHANGED <<rerun, probe>>

BuildMatchedElements ==
    /\ \E now \in Clock : BuildMatchedElementsStep(now)
    /\ UNCHANGED <<rerun, probe>>

SerializeResult == SerializeResultStep /\ UNCHANGED <<rerun, probe>>

Next ==
    \/ BuildLookup
    \/ BeginMatch
    \/ ProcessSlide
    \/ BuildMatchedElements
    \/ SerializeResult

Spec == Init /\ [][Next]_vars

(***************************************************************************)
(* Two runs of main() on the same input, step by step: rerun is the second *)
(* run, with its own iteration orders and its own clock.                   *)
(***************************************************************************)
RerunAfterSlide(run, r) ==
    [run EXCEPT !.element_evidence = r.element_evidence,
                !.unmatched_slides = r.unmatched_slides,
                !.stats = r.stats]

RerunAfterCollect(run, r, n, now) ==
    [run EXCEPT !.matched_elements = r.matched_elements,
                !.stats = r.stats,
                !.metadata = Metadata(n, now)]

BeginMatchTwice ==
    /\ BeginMatchStep
    /\ rerun' = [rerun EXCEPT !.element_evidence = [key \in Keys(elements_lookup) |-> <<>>],
                              !.unmatched_slides = <<>>,
                              !.stats = InitialStats(Len(slides))]
    /\ UNCHANGED probe

ProcessSlideTwice ==
    /\ pc = "slides"
    /\ k < Len(slides)
    /\ \E order1, order2 \in Orders(get_all_elements(slides[k + 1].text)) :
          /\ ProcessSlideStep(order1)
          /\ rerun' = RerunAfterSlide(rerun,
                          SlideStep([element_evidence |-> rerun.element_evidence,
                                     unmatched_slides |-> rerun.unmatched_slides,
                                     stats |-> rerun.stats], slides[k + 1], order2))
    /\ UNCHANGED probe

BuildMatchedElementsTwice ==
    /\ \E now1, now2 \in Clock :
          /\ BuildMatchedElementsStep(now1)
          /\ rerun' = RerunAfterCollect(rerun,
                          CollectElements(elements_lookup, rerun.element_evidence, rerun.stats),
                          Len(slides), now2)
    /\ UNCHANGED probe

SerializeResultTwice ==
    /\ SerializeResultStep
    /\ rerun' = [rerun EXCEPT !.output =
                     serialize_result([metadata |-> rerun.metadata,
                                       matched_elements |-> rerun.matched_elements,
                                       unmatched_slides |-> rerun.unmatched_slides,
                                       statistics |-> rerun.stats])]
    /\ UNCHANGED probe

NextRuns ==
    \/ BuildLookup
    \/ BeginMatchTwice
    \/ ProcessSlideTwice
    \/ BuildMatchedElementsTwice
    \/ SerializeResultTwice

SpecRuns == Init /\ [][NextRuns]_vars

(***************************************************************************)
(* One pass over all the slides beside two passes over the two consecutive *)
(* chunks the slides are split into, each chunk matched against the same   *)
(* registry in a run of its own (probe.res and probe.res2 are the          *)
(* accumulators of the two chunks, probe.arg the length of the first);     *)
(* rerun is the result merged from the chunks.                             *)
(***************************************************************************)
\* lines 190-208 for a chunk of n slides
FreshRun(lookup, n) ==
    [element_evidence |-> [key \in Keys(lookup) |-> <<>>],
     unmatched_slides |-> <<>>,
     stats |-> InitialStats(n)]

\* the counters of the slides added, the two counters of the elements left at 0
AddStats(a, b) ==
    [total_slides |-> a.total_slides + b.total_slides,
     matched_slides |-> a.matched_slides + b.matched_slides,
     unmatched_slides |-> a.unmatched_slides + b.unmatched_slides,
     section_headers |-> a.section_headers + b.section_headers,
     empty_slides |-> a.empty_slides + b.empty_slides,
     elements_with_evidence |-> 0,
     elements_without_evidence |-> 0,
     multi_element_slides |-> a.multi_element_slides + b.multi_element_slides]

\* the lists of the chunks concatenated in the order of the slides
MergeChunkRuns(a, b) ==
    [element_evidence |->
         [key \in DOMAIN a.element_evidence |->
             a.element_evidence[key] \o b.element_evidence[key]],
     unmatched_slides |-> a.unmatched_slides \o b.unmatched_slides,
     stats |-> AddStats(a.stats, b.stats)]

\* lines 309-340 on the merged lists
CollectMerged(run, merged, lookup, n, now) ==
    RerunAfterCollect(RerunAfterSlide(run, merged),
                      CollectElements(lookup, merged.element_evidence, merged.stats),
                      n, now)

BeginChunks ==
    /\ pc = "begin"
    /\ BeginMatchStep
    /\ \E split \in 0..Len(slides) :
          probe' = [fn |-> "chunks", arg |-> split,
                    res |-> FreshRun(elements_lookup, split),
                    res2 |-> FreshRun(elements_lookup, Len(slides) - split)]
    /\ UNCHANGED rerun

ProcessSlideInChunk ==
    /\ pc = "slides"
    /\ k < Len(slides)
    /\ \E order1, order2 \in Orders(get_all_elements(slides[k + 1].text)) :
          /\ ProcessSlideStep(order1)
          /\ probe' = IF k + 1 <= probe.arg
                      THEN [probe EXCEPT !.res = SlideStep(probe.res, slides[k + 1], order2)]
                      ELSE [probe EXCEPT !.res2 = SlideStep(probe.res2, slides[k + 1], order2)]
    /\ UNCHANGED rerun

MergeChunks ==
    /\ \E now \in Clock :
          /\ BuildMatchedElementsStep(now)
          /\ rerun' = CollectMerged(rerun, MergeChunkRuns(probe.res, probe.res2),
                                    elements_lookup, Len(slides), now)
    /\ UNCHANGED probe

NextChunks ==
    \/ BuildLookup
    \/ BeginChunks
    \/ ProcessSlideInChunk
    \/ MergeChunks

SpecChunks == Init /\ [][NextChunks]_vars

(***************************************************************************)
(* The pure functions on their own: probe holds the function applied, its  *)
(* argument and its results.                                               *)
(***************************************************************************)
MaxIdLen == 3
MaxFrags == 2

IdAlphabet == {"2", ".", "a", "A", " "}

IdStrings == UNION {[1..n -> IdAlphabet] : n \in 0..MaxIdLen}

DefinitionIds ==
    {NoneId}
    \cup {NumId(w, f) : w \in {<<"2">>, <<"1", "0">>}, f \in {<<>>, <<"1">>, <<"0", "5">>}}
    \cup {StrId(s) : s \in IdStrings}

Idle ==
    /\ pc = "idle"
    /\ elements_data = <<>>
    /\ slides = <<>>
    /\ elements_lookup = <<>>
    /\ k = 0
    /\ element_evidence = <<>>
    /\ unmatched_slides = <<>>
    /\ stats = InitialStats(0)
    /\ matched_elements = <<>>
    /\ metadata = Metadata(0, "never")
    /\ output = <<>>
    /\ rerun = NoRun

OnlyProbe ==
    UNCHANGED <<pc, elements_data, slides, elements_lookup, k, element_evidence,
                unmatched_slides, stats, matched_elements, metadata, output, rerun>>

InitNorm ==
    /\ Idle
    /\ probe \in {[fn |-> "id", arg |-> s, res |-> <<>>, res2 |-> <<>>] : s \in IdStrings}
            \cup {[fn |-> "definition", arg |-> d, res |-> <<>>, res2 |-> <<>>] :
                     d \in DefinitionIds}

NormalizeOnce ==
    /\ probe.fn = "id"
    /\ probe' = [probe EXCEPT !.fn = "normalized", !.res = normalize_element_id(probe.arg)]
    /\ OnlyProbe

NormalizeTwice ==
    /\ probe.fn = "normalized"
    /\ probe' = [probe EXCEPT !.fn = "renormalized", !.res2 = normalize_element_id(probe.res)]
    /\ OnlyProbe

\* the registry of the one definition probe.arg
BuildOne ==
    /\ probe.fn = "definition"
    /\ probe' = [probe EXCEPT !.fn = "built",
                              !.res = build_elements_lookup(MakeData(<<probe.arg>>))]
    /\ OnlyProbe

\* the registry of the one definition whose id is the key of the registry built
BuildFromKey ==
    /\ probe.fn = "built"
    /\ probe.res # <<>>
    /\ probe' = [probe EXCEPT !.fn = "rebuilt",
                     !.res2 = build_elements_lookup(MakeData(<<StrId(probe.res[1].PI_Element)>>))]
    /\ OnlyProbe

NextNorm ==
    \/ NormalizeOnce
    \/ NormalizeTwice
    \/ BuildOne
    \/ BuildFromKey

SpecNorm == InitNorm /\ [][NextNorm]_vars

\* "6.1 >"
F_Arrow == <<"6", ".", "1", " ", ">">>
\* "3.1a>"
F_ArrowLetter == <<"3", ".", "1", "a", ">">>
\* "NEXT 4.1 >"
F_Next == <<"N", "E", "X", "T", " ", "4", ".", "1", " ", ">">>
\* "PI-2"
F_PiHeader == <<"P", "I", "-", "2">>
\* "(5.1)"
F_Paren == <<"(", "5", ".", "1", ")">>
\* "(7.2b)"
F_ParenLetter == <<"(", "7", ".", "2", "b", ")">>
\* "Element 8.1"
F_Explicit == <<"E", "l", "e", "m", "e", "n", "t", " ", "8", ".", "1">>
\* "PI 6 [en dash] T (6.1)\n"
F_Title == <<"P", "I", " ", "6", " ", "ndash", " ", "T", " ", "(", "6", ".", "1", ")", "\n">>
\* "x "
F_Word == <<"x", " ">>

Fragments == {F_Arrow, F_ArrowLetter, F_Next, F_PiHeader, F_Paren, F_ParenLetter, F_Explicit, F_Title, F_Word}

RECURSIVE Concat(_)
Concat(parts) == IF parts = <<>> THEN <<>> ELSE Head(parts) \o Concat(Tail(parts))

\* the texts made of at most MaxFrags fragments
FragmentTexts == {Concat(fs) : fs \in UNION {[1..n -> Fragments] : n \in 0..MaxFrags}}

InitExtract ==
    /\ Idle
    /\ probe \in {[fn |-> "text", arg |-> t, res |-> <<>>, res2 |-> <<>>] : t \in FragmentTexts}

ExtractReferences ==
    /\ probe.fn = "text"
    /\ probe' = [probe EXCEPT !.fn = "extract_element_references",
                              !.res = extract_element_references(probe.arg)]
    /\ OnlyProbe

GetPrimary ==
    /\ probe.fn = "text"
    /\ probe' = [probe EXCEPT !.fn = "get_primary_element",
                              !.res = get_primary_element(probe.arg)]
    /\ OnlyProbe

GetAll ==
    /\ probe.fn = "text"
    /\ probe' = [probe EXCEPT !.fn = "get_all_elements",
                              !.res = get_all_elements(probe.arg)]
    /\ OnlyProbe

NextExtract ==
    \/ ExtractReferences
    \/ GetPrimary
    \/ GetAll

SpecExtract == InitExtract /\ [][NextExtract]_vars

(***************************************************************************)
(* Properties                                                              *)
(***************************************************************************)
\* what the extractor makes of each slide text of the model
ReferencesOfText == [t \in SlideTexts |-> extract_element_references(t)]
AllElementsOfText == [t \in SlideTexts |-> get_all_elements(t)]
PrimaryOfText == [t \in SlideTexts |-> get_primary_element(t)]
HeaderOfText == [t \in SlideTexts |-> is_section_header(t)]

Matching == pc \in {"slides", "serialize", "done"}
Collected == pc \in {"serialize", "done"}

\* the entries of the evidence lists of a run, each with the key of its list
EntriesOf(run) ==
    UNION {{[key |-> key, pos |-> j, entry |-> run[key][j]] : j \in DOMAIN run[key]} :
              key \in DOMAIN run}

\* the entries the slide with the given index produced
EntriesOfSlide(index) == {e \in EntriesOf(element_evidence) : e.entry.slide_index = index}

AccountedSlides == stats.empty_slides + stats.unmatched_slides + stats.matched_slides

\* C1: the three slide counters sum to the number of slides processed at every
\* point of the pass and to total_slides after it, and each slide adds one to
\* exactly one of them.
C1_SlideAccounting ==
    /\ [](Matching => AccountedSlides = k)
    /\ [](Collected => AccountedSlides = stats.total_slides)
    /\ [][k' = k + 1 =>
            /\ stats'.empty_slides - stats.empty_slides \in {0, 1}
            /\ stats'.unmatched_slides - stats.unmatched_slides \in {0, 1}
            /\ stats'.matched_slides - stats.matched_slides \in {0, 1}
            /\ AccountedSlides' = AccountedSlides + 1]_vars

C1_Witness ==
    /\ pc = "done"
    /\ stats.total_slides = 2
    /\ stats.empty_slides = 1
    /\ stats.unmatched_slides = 1

\* C2: a slide adds at most one entry to each registry element; a slide with
\* "2.1" and "2.1A" adds exactly one entry to "2.1" when that is the only key.
C2_OneEntryPerSlideAndTarget ==
    Matching =>
        /\ \A a, b \in EntriesOf(element_evidence) :
              a.key = b.key /\ a.entry.slide_index = b.entry.slide_index => a.pos = b.pos
        /\ \A i \in 1..k :
              slides[i].text = T_Both /\ DOMAIN element_evidence = {Id_2_1}
                  => Cardinality(EntriesOfSlide(i)) = 1

C2_Witness ==
    /\ Matching
    /\ k >= 1
    /\ slides[1].text = T_Both
    /\ DOMAIN element_evidence = {Id_2_1}
    /\ AllElementsOfText[slides[1].text] = {Id_2_1, Id_2_1A}
    /\ Len(element_evidence[Id_2_1]) >= 1

\* C3 as stated: a slide produces at most as many entries as it has distinct
\* ids, and the element an entry was appended to is in all_elements_in_slide.
C3_TargetListed ==
    Matching =>
        /\ \A i \in 1..k :
              Cardinality(EntriesOfSlide(i)) <= Cardinality(AllElementsOfText[slides[i].text])
        /\ \A e \in EntriesOf(element_evidence) :
              e.key \in Range(e.entry.all_elements_in_slide)

\* C3, amended: a slide produces at most as many entries as it has distinct
\* ids, and the element an entry was appended to is in all_elements_in_slide
\* or is a member of it with its trailing letters removed.
C3_TargetListedOrBase ==
    Matching =>
        /\ \A i \in 1..k :
              Cardinality(EntriesOfSlide(i)) <= Cardinality(AllElementsOfText[slides[i].text])
        /\ \A e \in EntriesOf(element_evidence) :
              \E id \in Range(e.entry.all_elements_in_slide) :
                  e.key = id \/ e.key = StripTrailingLetters(id)

C3_Witness ==
    /\ Matching
    /\ \E e \in EntriesOf(element_evidence) :
          e.key = Id_2_1 /\ e.entry.all_elements_in_slide = <<Id_2_1A>>

WithoutClock(out) == [out EXCEPT !.metadata.generated_at = "-"]

\* C4: two runs on the same input serialize to the same output but for
\* metadata.generated_at, whatever the iteration orders of the sets.
C4_Deterministic ==
    pc = "done" => WithoutClock(output) = WithoutClock(rerun.output)

\* C5: matched_elements has exactly one MatchedElement per registry key,
\* those without evidence included.
C5_OneElementPerKey ==
    Collected =>
        /\ Len(matched_elements) = Cardinality(Keys(elements_lookup))
        /\ {matched_elements[i].pi_element : i \in DOMAIN matched_elements}
               = Keys(elements_lookup)

C5_Witness ==
    /\ pc = "done"
    /\ Len(matched_elements) = 2
    /\ \E i, j \in DOMAIN matched_elements :
          matched_elements[i].evidence = <<>> /\ matched_elements[j].evidence # <<>>

\* C6: evidence_count is the length of the evidence list, in the result and
\* in the serialized output.
C6_CountIsLength ==
    /\ Collected =>
          \A i \in DOMAIN matched_elements :
              matched_elements[i].evidence_count = Len(matched_elements[i].evidence)
    /\ pc = "done" =>
          \A i \in DOMAIN output.matched_elements :
              output.matched_elements[i].evidence_count
                  = Len(output.matched_elements[i].Evidence)

C6_Witness ==
    /\ pc = "done"
    /\ \E i \in DOMAIN output.matched_elements :
          /\ output.matched_elements[i].evidence_count = 2
          /\ Len(output.matched_elements[i].Evidence) = 2

\* C7: with an empty registry the result has no matched element, both element
\* counters are 0, and no slide is counted as matched: every slide is counted
\* as unmatched or as empty.
C7_EmptyRegistry ==
    pc = "done" /\ elements_lookup = <<>> =>
        /\ matched_elements = <<>>
        /\ stats.elements_with_evidence = 0
        /\ stats.elements_without_evidence = 0
        /\ stats.matched_slides = 0
        /\ stats.unmatched_slides + stats.empty_slides = stats.total_slides

\* C8: with the registry built from the number 2 (key "2.0"), a slide that
\* says "2 >" adds an evidence entry to "2.0".
C8_IntegerReferenceResolves ==
    Matching =>
        \A i \in 1..k :
            /\ Len(elements_data) = 1
            /\ elements_data[1].PI_Element = NumId(<<"2">>, <<>>)
            /\ slides[i].text = T_Int
            => /\ Keys(elements_lookup) = {Id_2_0}
               /\ \E e \in EntriesOfSlide(i) : e.key = Id_2_0

\* C9: normalizing a normalized id leaves it as it is, and a key of the
\* registry given back as the id of a definition is stored under itself.
C9_NormalizationIdempotent ==
    /\ probe.fn = "renormalized" => probe.res2 = probe.res
    /\ probe.fn = "rebuilt" => Keys(probe.res2) = Keys(probe.res)

C9_Witness ==
    /\ probe.fn = "renormalized"
    /\ probe.arg = <<"2", "a", " ">>
    /\ probe.res = <<"2", "A">>

ClaimedPriority ==
    <<"arrow_format", "next_arrow_format", "slide_title_format",
      "element_explicit", "parentheses_format", "pi_header">>

ClaimedRank(kind) == CHOOSE r \in DOMAIN ClaimedPriority : ClaimedPriority[r] = kind

\* best is the first match of the kind that ranks highest among the matches
FirstOfBestKind(matches, best) ==
    /\ best \in DOMAIN matches
    /\ \A j \in DOMAIN matches : ClaimedRank(matches[best].kind) <= ClaimedRank(matches[j].kind)
    /\ \A j \in 1..(best - 1) : matches[j].kind # matches[best].kind

\* C10: get_primary_element returns the id of the first match, in extractor
\* order, of the highest-priority kind present (arrow > nextArrow > slideTitle >
\* explicitElement > parentheses > piHeader), and None exactly when the text
\* has no match; "PI 6 [en dash] T (6.1)\n6.1 >" gives "6.1".
C10_PrimaryIsFirstOfBestKind ==
    probe.fn = "get_primary_element" =>
        /\ probe.res = None <=> extract_element_references(probe.arg) = <<>>
        /\ probe.res # None =>
              \E best \in DOMAIN extract_element_references(probe.arg) :
                  /\ FirstOfBestKind(extract_element_references(probe.arg), best)
                  /\ probe.res = extract_element_references(probe.arg)[best].id
        /\ probe.arg = F_Title \o F_Arrow => probe.res = <<"6", ".", "1">>

C10_Witness ==
    /\ probe.fn = "get_primary_element"
    /\ probe.arg = F_Paren \o F_Explicit
    /\ extract_element_references(probe.arg)[1].kind = "parentheses_format"
    /\ probe.res = <<"8", ".", "1">>

\* the number an id starts with: its leading digits and, when a '.' and
\* digits follow them, those digits as the fraction
LeadingNumber(id) ==
    LET a == SkipDigits(id, 1)
        b == IF a <= Len(id) /\ id[a] = "." THEN SkipDigits(id, a + 1) ELSE a
    IN  [w |-> SubSeq(id, 1, a - 1),
         f |-> IF b > a THEN SubSeq(id, a + 1, b - 1) ELSE <<>>]

\* C11: matched_elements is in ascending order of the number each id starts
\* with, trailing letters ignored and an id with more than one '.' ordered by
\* its leading numeric prefix ("9.4.1" comes after "2.1").
C11_SortedByLeadingNumber ==
    Collected =>
        \A i, j \in DOMAIN matched_elements :
            i < j => ~FloatLess(LeadingNumber(matched_elements[j].pi_element),
                                LeadingNumber(matched_elements[i].pi_element))

\* the entry carries the four values of the slide unchanged
CarriesSlide(entry, slide) ==
    /\ entry.slide_index = slide.index
    /\ entry.source_file = slide.source_file
    /\ entry.source_index = slide.source_index
    /\ entry.text = slide.text

\* C12: every evidence entry carries the slide_index, source_file,
\* source_index and full text of the slide that produced it, and the entries
\* one slide adds to several elements carry the same four values.
C12_ProvenanceCarried ==
    Matching =>
        /\ \A e \in EntriesOf(element_evidence) :
              \E i \in 1..k : CarriesSlide(e.entry, slides[i])
        /\ \A i \in 1..k : \A e \in EntriesOfSlide(i) : CarriesSlide(e.entry, slides[i])

C12_Witness ==
    /\ Matching
    /\ k = 2
    /\ slides[2].source_file = "deck_b.pptx"
    /\ slides[2].source_index = 1
    /\ \E a, b \in EntriesOfSlide(2) :
          /\ a.key # b.key
          /\ a.entry.source_index = 1
          /\ b.entry.source_file = "deck_b.pptx"

HasId(definition) == definition.PI_Element.type # "NoneType"

\* C13: a definition whose id is missing or null is skipped: the registry is
\* the one built from the list without those definitions, and every other
\* definition is registered.
C13_NullIdsSkipped ==
    pc # "build" =>
        /\ elements_lookup = build_elements_lookup(SelectSeq(elements_data, HasId))
        /\ Keys(elements_lookup)
               = {LookupKey(elements_data[i].PI_Element) :
                      i \in {j \in DOMAIN elements_data : HasId(elements_data[j])}}

C13_Witness ==
    /\ pc = "begin"
    /\ Len(elements_data) = 2
    /\ ~HasId(elements_data[1])
    /\ Keys(elements_lookup) = {Id_2_1}

\* the canonical id of a definition's id: a number rendered with its decimal
\* point, a string with its trailing letter upper-cased
CanonicalId(id) ==
    IF id.type = "number" THEN FormatNumber(id.num) ELSE normalize_element_id(id.str)

\* C14: definitions that normalize to the same canonical id share one key,
\* which carries the texts of the last of them; the registry has as many keys
\* as there are distinct canonical ids among the definitions that have an id.
C14_LastDefinitionWins ==
    pc # "build" =>
        /\ Len(elements_lookup)
               = Cardinality({CanonicalId(elements_data[i].PI_Element) :
                                 i \in {j \in DOMAIN elements_data : HasId(elements_data[j])}})
        /\ \A i \in DOMAIN elements_data :
              /\ HasId(elements_data[i])
              /\ \A j \in DOMAIN elements_data :
                    j > i /\ HasId(elements_data[j])
                        => CanonicalId(elements_data[j].PI_Element)
                               # CanonicalId(elements_data[i].PI_Element)
              => \E n \in DOMAIN elements_lookup :
                    /\ normalize_element_id(elements_lookup[n].PI_Element)
                           = CanonicalId(elements_data[i].PI_Element)
                    /\ elements_lookup[n].Ask_Look_For = elements_data[i].Ask_Look_For
                    /\ elements_lookup[n].Calibrator_notes = elements_data[i].Calibrator_notes
                    /\ \A m \in DOMAIN elements_lookup :
                          normalize_element_id(elements_lookup[m].PI_Element)
                              = CanonicalId(elements_data[i].PI_Element) => m = n

\* the serialized record of an evidence entry says what the entry says
SameEvidence(record, entry) ==
    /\ record.slide_index = entry.slide_index
    /\ record.source_file = entry.source_file
    /\ record.source_index = entry.source_index
    /\ record.text_preview = entry.text_preview
    /\ record.match_pattern = entry.match_pattern
    /\ record.all_elements_in_slide = entry.all_elements_in_slide
    /\ record.is_primary_match = entry.is_primary_match
    /\ record.full_text = entry.text

\* C15: the serialized output has the matched elements in the order of the
\* result, each with its evidence in the order of its list and every field of
\* every entry unchanged; statistics and unmatched_slides are passed through.
C15_SerializationLossless ==
    pc = "done" =>
        /\ DOMAIN output.matched_elements = DOMAIN matched_elements
        /\ \A i \in DOMAIN matched_elements :
              /\ output.matched_elements[i].PI_Element = matched_elements[i].pi_element
              /\ DOMAIN output.matched_elements[i].Evidence
                     = DOMAIN matched_elements[i].evidence
              /\ \A j \in DOMAIN matched_elements[i].evidence :
                    SameEvidence(output.matched_elements[i].Evidence[j],
                                 matched_elements[i].evidence[j])
        /\ output.statistics = stats
        /\ output.unmatched_slides = unmatched_slides

C15_Witness ==
    /\ pc = "done"
    /\ Len(output.matched_elements) = 2
    /\ output.unmatched_slides # <<>>
    /\ \E i \in DOMAIN output.matched_elements :
          \E j \in DOMAIN output.matched_elements[i].Evidence :
              output.matched_elements[i].Evidence[j].source_index
                  # output.matched_elements[i].Evidence[j].slide_index

\* the raw id resolves to the key: it is the key, or it is no key itself and
\* the key is what is left of it without its trailing letters
ResolvesTo(id, key) ==
    /\ key \in DOMAIN element_evidence
    /\ \/ id = key
       \/ id \notin DOMAIN element_evidence /\ StripTrailingLetters(id) = key

KeysWithEntryOf(index) == {e.key : e \in EntriesOfSlide(index)}

\* C16: a slide adds evidence to exactly the keys its raw ids resolve to, a raw
\* id resolving to itself when it is a key, else to itself without its trailing
\* letters when that is a key, else to nothing.  With "2.1" and "2.1A"
\* registered, a slide citing only "2.1A" adds evidence to "2.1A" alone and a
\* slide citing only "2.1" to "2.1" alone.
C16_TargetResolution ==
    Matching =>
        \A i \in 1..k :
            /\ KeysWithEntryOf(i)
                   = {key \in DOMAIN element_evidence :
                         \E id \in AllElementsOfText[slides[i].text] : ResolvesTo(id, key)}
            /\ DOMAIN element_evidence = {Id_2_1, Id_2_1A} =>
                  /\ slides[i].text = T_Suffix => KeysWithEntryOf(i) = {Id_2_1A}
                  /\ slides[i].text = T_Arrow => KeysWithEntryOf(i) = {Id_2_1}

C16_Witness ==
    /\ Matching
    /\ k >= 1
    /\ DOMAIN element_evidence = {Id_2_1, Id_2_1A}
    /\ AllElementsOfText[slides[1].text] = {Id_2_1A}
    /\ KeysWithEntryOf(1) = {Id_2_1A}

\* the pattern kind of the first raw match of the text that has the id
FirstKindOf(text, id) ==
    LET matches == ReferencesOfText[text]
        first == CHOOSE n \in DOMAIN matches :
                     /\ matches[n].id = id
                     /\ \A m \in 1..(n - 1) : matches[m].id # id
    IN  matches[first].kind

\* the entry is what the raw id makes of the slide: primary exactly when the id
\* is the primary reference, then with the pattern kind of the primary
\* reference, else with "secondary_reference"
EntryOfRawId(entry, id, text) ==
    /\ entry.is_primary_match = (id = PrimaryOfText[text])
    /\ entry.match_pattern =
           IF id = PrimaryOfText[text]
           THEN FirstKindOf(text, PrimaryOfText[text])
           ELSE "secondary_reference"

\* C17: is_primary_match of an entry is true iff the raw id that produced it is
\* the primary reference of the slide; match_pattern is the pattern kind of the
\* primary reference when it is true and "secondary_reference" otherwise.
C17_PrimaryFlagAndPattern ==
    Matching =>
        \A i \in 1..k : \A e \in EntriesOfSlide(i) :
            /\ \E id \in AllElementsOfText[slides[i].text] :
                  ResolvesTo(id, e.key) /\ EntryOfRawId(e.entry, id, slides[i].text)
            /\ e.entry.is_primary_match <=> e.entry.match_pattern # "secondary_reference"

C17_Witness ==
    /\ Matching
    /\ \E a, b \in EntriesOfSlide(1) :
          /\ a.entry.is_primary_match
          /\ a.entry.match_pattern = "arrow_format"
          /\ ~b.entry.is_primary_match
          /\ b.entry.match_pattern = "secondary_reference"

IsBlank(text) == \A n \in DOMAIN text : text[n] \in {" ", "\n", "\t"}

\* the positions in unmatched_slides of the records of the slide with the index
RecordsOfSlide(index) ==
    {n \in DOMAIN unmatched_slides : unmatched_slides[n].slide_index = index}

\* the slide has one record, whose reason is "No element reference found" when
\* the text has no reference and names the set of its ids otherwise
OneRecordWithReason(index, ids) ==
    /\ Cardinality(RecordsOfSlide(index)) = 1
    /\ \A n \in RecordsOfSlide(index) :
          IF ids = {}
          THEN /\ unmatched_slides[n].reason.message = "No element reference found"
               /\ unmatched_slides[n].reason.ids = <<>>
          ELSE /\ unmatched_slides[n].reason.message
                      = "Element(s) {} not found in elements list"
               /\ Range(unmatched_slides[n].reason.ids) = ids
               /\ Len(unmatched_slides[n].reason.ids) = Cardinality(ids)

\* C18: a slide that is not blank either adds at least one evidence entry and
\* no unmatched record, or exactly one unmatched record (with the reason its
\* case calls for) and no evidence entry.
C18_EvidenceOrRecord ==
    Matching =>
        \A i \in 1..k :
            ~IsBlank(slides[i].text) =>
                \/ EntriesOfSlide(i) # {} /\ RecordsOfSlide(i) = {}
                \/ /\ EntriesOfSlide(i) = {}
                   /\ OneRecordWithReason(i, AllElementsOfText[slides[i].text])

C18_Witness ==
    /\ Matching
    /\ k = 2
    /\ EntriesOfSlide(1) # {} /\ RecordsOfSlide(1) = {}
    /\ EntriesOfSlide(2) = {} /\ RecordsOfSlide(2) # {}
    /\ AllElementsOfText[slides[2].text] # {}

\* C19: processing a slide whose text is empty or white space adds one to
\* empty_slides and changes nothing else: no evidence entry, no unmatched
\* record, no other counter.
C19_BlankSlideOnlyCounted ==
    [][k' = k + 1 /\ IsBlank(slides[k + 1].text) =>
          /\ stats' = [stats EXCEPT !.empty_slides = @ + 1]
          /\ element_evidence' = element_evidence
          /\ unmatched_slides' = unmatched_slides]_vars

C19_Witness ==
    /\ pc = "slides"
    /\ k = 2
    /\ slides[2].text = T_Blank
    /\ EntriesOfSlide(1) # {}
    /\ stats.empty_slides = 1
    /\ stats.matched_slides = 1

IsPrefix(s, t) == Len(s) <= Len(t) /\ SubSeq(t, 1, Len(s)) = s

\* the slides of the items of the list come in the order of the input
InInputOrder(list) ==
    \A a, b \in DOMAIN list : a < b => list[a].slide_index < list[b].slide_index

\* C20: the entries of the evidence list of every element, and the unmatched
\* records, are in the order in which their slides occur in the input: each
\* slide adds what it adds at the end of the lists.
C20_EncounterOrder ==
    /\ [](Matching =>
            /\ \A key \in DOMAIN element_evidence : InInputOrder(element_evidence[key])
            /\ InInputOrder(unmatched_slides))
    /\ [][k' = k + 1 =>
            /\ DOMAIN element_evidence' = DOMAIN element_evidence
            /\ \A key \in DOMAIN element_evidence :
                  IsPrefix(element_evidence[key], element_evidence'[key])
            /\ IsPrefix(unmatched_slides, unmatched_slides')]_vars

C20_Witness ==
    /\ Matching
    /\ \E key \in DOMAIN element_evidence :
          /\ Len(element_evidence[key]) = 2
          /\ element_evidence[key][1].slide_index = 1
          /\ element_evidence[key][2].slide_index = 2

\* C21: matching the two chunks of any split of the slides on their own and
\* merging the results (lists concatenated in slide order, slide counters
\* added, element counters recomputed) gives the result of the one pass over
\* all the slides.
C21_Decomposable ==
    pc = "serialize" =>
        /\ rerun.element_evidence = element_evidence
        /\ rerun.unmatched_slides = unmatched_slides
        /\ rerun.stats = stats
        /\ rerun.matched_elements = matched_elements

DeclaredKinds ==
    <<"arrow_format", "next_arrow_format", "pi_header",
      "parentheses_format", "element_explicit", "slide_title_format">>

\* the match of the p-th pattern that starts at position i of the text
MatchAt(p, text, i) == TryMatch(ELEMENT_PATTERNS[p].regex, 1, text, i, i, i)

\* The positions at which the matches of the p-th pattern start: scanning from
\* the left, a position where the pattern matches is taken unless a match
\* taken before it extends over it.
MatchStarts(p, text) ==
    LET starts == {i \in DOMAIN text : MatchAt(p, text, i).end # 0}
    IN  CHOOSE taken \in SUBSET starts :
            \A i \in starts :
                i \in taken <=> ~\E j \in taken : j < i /\ MatchAt(p, text, j).end > i

\* the n-th position of the set, counted from the left
NthOf(positions, n) ==
    CHOOSE i \in positions : Cardinality({j \in positions : j < i}) = n - 1

\* the matches of the kind among the references are the matches of the p-th
\* pattern in the text, from left to right, none left out and none added
KindHasItsMatches(references, p, text) ==
    LET ofKind == SelectSeq(references, LAMBDA m : m.kind = DeclaredKinds[p])
        starts == MatchStarts(p, text)
    IN  /\ Len(ofKind) = Cardinality(starts)
        /\ \A n \in DOMAIN ofKind :
              ofKind[n].id = normalize_element_id(MatchAt(p, text, NthOf(starts, n)).group)

KindRank(kind) == CHOOSE r \in DOMAIN DeclaredKinds : DeclaredKinds[r] = kind

\* C22: extract_element_references returns every match of every pattern, the
\* matches of one id under several kinds included, ordered by the order in
\* which the patterns are declared and then by position in the text; the empty
\* text gives the empty sequence.
C22_AllMatchesInDeclaredOrder ==
    probe.fn = "extract_element_references" =>
        /\ \A n \in DOMAIN probe.res : probe.res[n].kind \in Range(DeclaredKinds)
        /\ \A a, b \in DOMAIN probe.res :
              a < b => KindRank(probe.res[a].kind) <= KindRank(probe.res[b].kind)
        /\ \A p \in DOMAIN DeclaredKinds :
              /\ ELEMENT_PATTERNS[p].name = DeclaredKinds[p]
              /\ KindHasItsMatches(probe.res, p, probe.arg)
        /\ probe.arg = <<>> => probe.res = <<>>

C22_Witness ==
    /\ probe.fn = "extract_element_references"
    /\ probe.arg = F_Title \o F_Arrow
    /\ probe.res = <<[id |-> <<"6", ".", "1">>, kind |-> "arrow_format"],
                     [id |-> <<"6">>, kind |-> "pi_header"],
                     [id |-> <<"6", ".", "1">>, kind |-> "parentheses_format"],
                     [id |-> <<"6", ".", "1">>, kind |-> "slide_title_format"]>>

\* C23: a definition whose id is a string is stored under its canonical id,
\* the trailing letter upper-cased ("2.1a" under "2.1A"), and a slide that
\* says "2.1a >" adds its evidence to that key.
C23_StringIdsNormalized ==
    Matching =>
        /\ \A n \in DOMAIN elements_data :
              elements_data[n].PI_Element.type = "str" =>
                  normalize_element_id(elements_data[n].PI_Element.str)
                      \in Keys(elements_lookup)
        /\ \A i \in 1..k :
              /\ \E n \in DOMAIN elements_data : elements_data[n].PI_Element = StrId(Id_2_1a)
              /\ slides[i].text = T_Suffix
              => /\ AllElementsOfText[slides[i].text] = {Id_2_1A}
                 /\ KeysWithEntryOf(i) = {Id_2_1A}

\* digits, a '.', digits, and at most one upper-case letter after them
IsMajorMinorLetter(id) ==
    LET dot == SkipDigits(id, 1)
        rest == IF dot <= Len(id) /\ id[dot] = "." THEN SkipDigits(id, dot + 1) ELSE dot
    IN  /\ dot > 1
        /\ rest > dot + 1
        /\ \/ rest = Len(id) + 1
           \/ rest = Len(id) /\ id[rest] \in Range(UpperCase)

\* C24: every id extract_element_references returns has the form
\* <major>.<minor>[LETTER]; the bare integer of "PI-2" comes back as "2.0".
C24_ExtractedIdsCanonical ==
    probe.fn = "extract_element_references" =>
        /\ \A n \in DOMAIN probe.res : IsMajorMinorLetter(probe.res[n].id)
        /\ probe.arg = F_PiHeader =>
              probe.res = <<[id |-> <<"2", ".", "0">>, kind |-> "pi_header"]>>

\* C25: after the pass elements_with_evidence is the number of registry
\* entries with evidence and elements_without_evidence the number without, so
\* that they sum to the size of the registry; during the pass both are 0.
C25_ElementCounters ==
    /\ Collected =>
          /\ stats.elements_with_evidence
                 = Cardinality({key \in Keys(elements_lookup) : element_evidence[key] # <<>>})
          /\ stats.elements_without_evidence
                 = Cardinality({key \in Keys(elements_lookup) : element_evidence[key] = <<>>})
          /\ stats.elements_with_evidence + stats.elements_without_evidence
                 = Len(elements_lookup)
    /\ pc = "slides" =>
          stats.elements_with_evidence = 0 /\ stats.elements_without_evidence = 0

C25_Witness ==
    /\ pc = "done"
    /\ stats.elements_with_evidence = 1
    /\ stats.elements_without_evidence = 1
    /\ \E key \in Keys(elements_lookup) : Len(element_evidence[key]) = 2

\* what the slide would have produced had is_section_header said the opposite
WithHeaderFlipped(slide, order) ==
    SlideBody([element_evidence |-> element_evidence,
               unmatched_slides |-> unmatched_slides,
               stats |-> stats],
              slide, order, ~HeaderOfText[slide.text], AllElementsOfText[slide.text],
              PrimaryOfText[slide.text], ReferencesOfText[slide.text])

\* C26: what a slide that is not blank adds to the evidence lists, to the
\* unmatched records and to the matched, unmatched and multi-element counters
\* is what it would add if is_section_header said the opposite; a section
\* header adds one to section_headers and that is all it changes.
C26_HeaderInformational ==
    [][k' = k + 1 /\ ~IsBlank(slides[k + 1].text) =>
          /\ \E order \in Orders(AllElementsOfText[slides[k + 1].text]) :
                /\ element_evidence' = WithHeaderFlipped(slides[k + 1], order).element_evidence
                /\ unmatched_slides' = WithHeaderFlipped(slides[k + 1], order).unmatched_slides
                /\ [stats' EXCEPT !.section_headers = 0]
                       = [WithHeaderFlipped(slides[k + 1], order).stats
                              EXCEPT !.section_headers = 0]
          /\ stats'.section_headers =
                 stats.section_headers + IF HeaderOfText[slides[k + 1].text] THEN 1 ELSE 0]_vars

C26_Witness ==
    /\ pc = "slides"
    /\ k = 1
    /\ HeaderOfText[slides[1].text]
    /\ EntriesOfSlide(1) # {}
    /\ stats.section_headers = 1
    /\ stats.matched_slides = 1

\* C27: the primary reference of a slide that has a reference is one of its
\* ids and the id of one of its raw matches, and the match_pattern of every
\* evidence entry is one of the six pattern kinds or "secondary_reference",
\* never "unknown".
C27_UnknownUnreachable ==
    Matching =>
        /\ \A i \in 1..k :
              AllElementsOfText[slides[i].text] # {} =>
                  /\ PrimaryOfText[slides[i].text] \in AllElementsOfText[slides[i].text]
                  /\ \E n \in DOMAIN ReferencesOfText[slides[i].text] :
                        ReferencesOfText[slides[i].text][n].id = PrimaryOfText[slides[i].text]
        /\ \A e \in EntriesOf(element_evidence) :
              /\ e.entry.match_pattern \in Range(DeclaredKinds) \cup {"secondary_reference"}
              /\ e.entry.match_pattern # "unknown"

C27_Witness ==
    /\ Matching
    /\ \E e \in EntriesOfSlide(1) :
          /\ slides[1].text = T_Title
          /\ PrimaryOfText[slides[1].text] = Id_2_1
          /\ e.entry.is_primary_match
          /\ e.entry.match_pattern = "parentheses_format"

\* C28: after the pass statistics.unmatched_slides is the number of unmatched
\* records and statistics.matched_slides the number of slides that added at
\* least one evidence entry.
C28_CountersAgreeWithRecords ==
    Collected =>
        /\ stats.unmatched_slides = Len(unmatched_slides)
        /\ stats.matched_slides = Cardinality({i \in 1..k : EntriesOfSlide(i) # {}})

\* C29: the entry a slide adds to the element its primary reference resolves
\* to is primary (is_primary_match true, match_pattern not
\* "secondary_reference"), whatever else of the slide resolves to that element,
\* and a slide adds at most one primary entry.
C29_PrimaryTargetGetsPrimaryEntry ==
    Matching =>
        \A i \in 1..k :
            /\ \A key \in DOMAIN element_evidence :
                  ResolvesTo(PrimaryOfText[slides[i].text], key) =>
                      /\ \E e \in EntriesOfSlide(i) : e.key = key
                      /\ \A e \in EntriesOfSlide(i) :
                            e.key = key =>
                                /\ e.entry.is_primary_match
                                /\ e.entry.match_pattern # "secondary_reference"
            /\ Cardinality({e \in EntriesOfSlide(i) : e.entry.is_primary_match}) <= 1

\* the kind that ranks highest among the kinds of the raw matches of the text
BestKindOfText(text) ==
    CHOOSE kind \in {ReferencesOfText[text][n].kind : n \in DOMAIN ReferencesOfText[text]} :
        \A n \in DOMAIN ReferencesOfText[text] :
            ClaimedRank(kind) <= ClaimedRank(ReferencesOfText[text][n].kind)

\* C30: the match_pattern of a primary entry is the kind by which the primary
\* reference was selected, the highest-priority kind present in the slide: a
\* slide whose references all come from the title "PI 2 - T (2.1)" records
\* slide_title_format.
C30_PrimaryPatternIsSelectingKind ==
    Matching =>
        \A i \in 1..k : \A e \in EntriesOfSlide(i) :
            e.entry.is_primary_match =>
                /\ e.entry.match_pattern = BestKindOfText(slides[i].text)
                /\ slides[i].text = T_Title => e.entry.match_pattern = "slide_title_format"

====
